---- MODULE Spec2Model ----
(***************************************************************************)
(* A model of the jwt-go core: segment codec, HMAC signing methods, the    *)
(* standard claim set and its validation, token signing, and the parse /   *)
(* verify pipeline.                                                        *)
(*                                                                         *)
(* Go strings and []byte values are sequences of byte values 0..255, so    *)
(* that encoding, splitting and comparison are computed byte by byte.      *)
(***************************************************************************)
EXTENDS Integers, Sequences, FiniteSets, TLC

\* ------------------------------------------------------------------------
\* Byte and string helpers
\* ------------------------------------------------------------------------

\* ASCII codes used below
DOT == 46        \* '.'
PAD == 61        \* '='
QUOTE == 34      \* '"'
BACKSLASH == 92  \* '\'
LF == 10
CR == 13

\* strings.Repeat of a one-byte string
Repeat(c, n) == [i \in 1..n |-> c]

RECURSIVE TrimRight(_, _)
\* strings.TrimRight(s, cutset) for a one-byte cutset
TrimRight(s, c) ==
    IF Len(s) > 0 /\ s[Len(s)] = c THEN TrimRight(SubSeq(s, 1, Len(s) - 1), c) ELSE s

RECURSIVE Join(_, _)
\* strings.Join(parts, sep) for a one-byte separator
Join(elems, sep) ==
    IF Len(elems) = 0 THEN <<>>
    ELSE IF Len(elems) = 1 THEN elems[1]
    ELSE elems[1] \o <<sep>> \o Join(Tail(elems), sep)

\* strings.Split(s, sep) for a one-byte separator: the substrings between
\* the occurrences of sep, one more than there are occurrences
Split(s, sep) ==
    LET at == { i \in 1..Len(s) : s[i] = sep }
        \* the position of the k-th separator; 0 and Len(s) + 1 bound the string
        Pos(k) == IF k = 0 THEN 0
                  ELSE IF k > Cardinality(at) THEN Len(s) + 1
                  ELSE CHOOSE i \in at : Cardinality({ j \in at : j < i }) = k - 1
    IN  [k \in 1..(Cardinality(at) + 1) |-> SubSeq(s, Pos(k - 1) + 1, Pos(k) - 1)]

\* s without the bytes of the set drop
Strip(s, drop) == SelectSeq(s, LAMBDA b : b \notin drop)

\* ------------------------------------------------------------------------
\* Segment codec (token.go): base64url, padding stripped / restored
\* ------------------------------------------------------------------------

\* the URL-safe alphabet of encoding/base64: A-Z a-z 0-9 - _
EncodeChar(v) ==
    IF v < 26 THEN 65 + v
    ELSE IF v < 52 THEN 97 + (v - 26)
    ELSE IF v < 62 THEN 48 + (v - 52)
    ELSE IF v = 62 THEN 45
    ELSE 95

\* decodeMap of the URL-safe alphabet; -1 for a byte outside it
DecodeChar(c) ==
    IF c >= 65 /\ c <= 90 THEN c - 65
    ELSE IF c >= 97 /\ c <= 122 THEN c - 97 + 26
    ELSE IF c >= 48 /\ c <= 57 THEN c - 48 + 52
    ELSE IF c = 45 THEN 62
    ELSE IF c = 95 THEN 63
    ELSE -1

RECURSIVE EncodeToString(_)
\* base64.URLEncoding.EncodeToString: 3 bytes -> 4 characters, '=' padded
EncodeToString(src) ==
    IF Len(src) = 0 THEN <<>>
    ELSE IF Len(src) = 1 THEN
        << EncodeChar(src[1] \div 4), EncodeChar((src[1] % 4) * 16), PAD, PAD >>
    ELSE IF Len(src) = 2 THEN
        << EncodeChar(src[1] \div 4),
           EncodeChar((src[1] % 4) * 16 + src[2] \div 16),
           EncodeChar((src[2] % 16) * 4), PAD >>
    ELSE
        << EncodeChar(src[1] \div 4),
           EncodeChar((src[1] % 4) * 16 + src[2] \div 16),
           EncodeChar((src[2] % 16) * 4 + src[3] \div 64),
           EncodeChar(src[3] % 64) >>
        \o EncodeToString(SubSeq(src, 4, Len(src)))

\* EncodeSegment: base64url with the trailing padding removed
EncodeSegment(seg) == TrimRight(EncodeToString(seg), PAD)

ErrCorruptInput == [ok |-> FALSE, err |-> "CorruptInputError"]

RECURSIVE DecodeQuanta(_)
\* The quantum loop of base64's decoder (padded, not strict) on input whose
\* '\r' and '\n' have been skipped: four characters give three bytes; the last
\* quantum may end in "==" (one byte) or "=" (two bytes); the bits of the last
\* character that do not fit a whole byte are dropped without being checked.
DecodeQuanta(s) ==
    IF Len(s) = 0 THEN [ok |-> TRUE, bytes |-> <<>>]
    ELSE IF Len(s) < 4 THEN ErrCorruptInput
    ELSE
      LET a == DecodeChar(s[1])
          b == DecodeChar(s[2])
          c == DecodeChar(s[3])
          d == DecodeChar(s[4])
      IN  IF a < 0 \/ b < 0 THEN ErrCorruptInput
          ELSE IF s[3] = PAD THEN
              IF s[4] = PAD /\ Len(s) = 4
              THEN [ok |-> TRUE, bytes |-> << a * 4 + b \div 16 >>]
              ELSE ErrCorruptInput
          ELSE IF c < 0 THEN ErrCorruptInput
          ELSE IF s[4] = PAD THEN
              IF Len(s) = 4
              THEN [ok |-> TRUE,
                    bytes |-> << a * 4 + b \div 16, (b % 16) * 16 + c \div 4 >>]
              ELSE ErrCorruptInput
          ELSE IF d < 0 THEN ErrCorruptInput
          ELSE
            LET rest == DecodeQuanta(SubSeq(s, 5, Len(s)))
            IN  IF rest.ok
                THEN [ok |-> TRUE,
                      bytes |-> << a * 4 + b \div 16,
                                   (b % 16) * 16 + c \div 4,
                                   (c % 4) * 64 + d >> \o rest.bytes]
                ELSE ErrCorruptInput

\* base64.URLEncoding.DecodeString
DecodeString(s) == DecodeQuanta(Strip(s, {CR, LF}))

\* variant: a decoder that does not restore the stripped padding
DecodeSegment_unpadded(seg) == DecodeString(seg)

\* DecodeSegment: restore the padding to a multiple of four, then decode
DecodeSegment(seg) ==
    LET l == Len(seg) % 4
    IN  DecodeString(IF l > 0 THEN seg \o Repeat(PAD, 4 - l) ELSE seg)

\* ------------------------------------------------------------------------
\* UTF-8 (unicode/utf8), as encoding/json uses it on string values
\* ------------------------------------------------------------------------

IsCont(s, i) == i <= Len(s) /\ s[i] >= 128 /\ s[i] <= 191

InRange(s, i, lo, hi) == i <= Len(s) /\ s[i] >= lo /\ s[i] <= hi

\* size of the well-formed UTF-8 sequence starting at s[i]; 0 when s[i]
\* starts none (utf8.DecodeRune returns RuneError with size 1 there)
RuneSize(s, i) ==
    LET b == s[i]
    IN  IF b < 128 THEN 1
        ELSE IF b >= 194 /\ b <= 223 THEN (IF IsCont(s, i + 1) THEN 2 ELSE 0)
        ELSE IF b = 224 THEN
            (IF InRange(s, i + 1, 160, 191) /\ IsCont(s, i + 2) THEN 3 ELSE 0)
        ELSE IF b = 237 THEN
            (IF InRange(s, i + 1, 128, 159) /\ IsCont(s, i + 2) THEN 3 ELSE 0)
        ELSE IF b >= 225 /\ b <= 239 THEN
            (IF IsCont(s, i + 1) /\ IsCont(s, i + 2) THEN 3 ELSE 0)
        ELSE IF b = 240 THEN
            (IF InRange(s, i + 1, 144, 191) /\ IsCont(s, i + 2) /\ IsCont(s, i + 3)
             THEN 4 ELSE 0)
        ELSE IF b >= 241 /\ b <= 243 THEN
            (IF IsCont(s, i + 1) /\ IsCont(s, i + 2) /\ IsCont(s, i + 3) THEN 4 ELSE 0)
        ELSE IF b = 244 THEN
            (IF InRange(s, i + 1, 128, 143) /\ IsCont(s, i + 2) /\ IsCont(s, i + 3)
             THEN 4 ELSE 0)
        ELSE 0

\* the encoding of U+FFFD, the replacement character
ReplacementBytes == <<239, 191, 189>>

\* utf8.AppendRune: the UTF-8 encoding of code point r
EncodeRune(r) ==
    IF r < 128 THEN <<r>>
    ELSE IF r < 2048 THEN << 192 + r \div 64, 128 + (r % 64) >>
    ELSE IF r >= 55296 /\ r <= 57343 THEN ReplacementBytes
    ELSE IF r < 65536 THEN
        << 224 + r \div 4096, 128 + ((r \div 64) % 64), 128 + (r % 64) >>
    ELSE << 240 + r \div 262144, 128 + ((r \div 4096) % 64),
            128 + ((r \div 64) % 64), 128 + (r % 64) >>

\* ------------------------------------------------------------------------
\* JSON encoding (encoding/json Marshal), as SigningString applies it to
\* the header map and to the standard claim set
\* ------------------------------------------------------------------------

\* "0123456789abcdef"[v]
HexChar(v) == IF v < 10 THEN 48 + v ELSE 97 + (v - 10)

\* htmlSafeSet: the ASCII bytes written without escaping
HtmlSafe(b) == b >= 32 /\ b < 128 /\ b \notin {QUOTE, BACKSLASH, 38, 60, 62}

RECURSIVE EscapeFrom(_, _)
\* the body of a JSON string for the Go string s, from index i (escapeHTML on)
EscapeFrom(s, i) ==
    IF i > Len(s) THEN <<>>
    ELSE
      LET b == s[i]
          n == RuneSize(s, i)
      IN  IF b < 128 THEN
              (IF HtmlSafe(b) THEN <<b>>
               ELSE IF b = QUOTE \/ b = BACKSLASH THEN <<BACKSLASH, b>>
               ELSE IF b = 8 THEN <<BACKSLASH, 98>>
               ELSE IF b = 12 THEN <<BACKSLASH, 102>>
               ELSE IF b = LF THEN <<BACKSLASH, 110>>
               ELSE IF b = CR THEN <<BACKSLASH, 114>>
               ELSE IF b = 9 THEN <<BACKSLASH, 116>>
               ELSE <<BACKSLASH, 117, 48, 48, HexChar(b \div 16), HexChar(b % 16)>>)
              \o EscapeFrom(s, i + 1)
          ELSE IF n = 0 THEN
              \* invalid UTF-8 is coerced to the escape of U+FFFD
              <<BACKSLASH, 117, 102, 102, 102, 100>> \o EscapeFrom(s, i + 1)
          ELSE IF n = 3 /\ b = 226 /\ s[i + 1] = 128 /\ s[i + 2] \in {168, 169} THEN
              \* U+2028 and U+2029
              <<BACKSLASH, 117, 50, 48, 50, HexChar(s[i + 2] % 16)>>
              \o EscapeFrom(s, i + 3)
          ELSE SubSeq(s, i, i + n - 1) \o EscapeFrom(s, i + n)

\* a Go string as a JSON string
MarshalString(s) == <<QUOTE>> \o EscapeFrom(s, 1) \o <<QUOTE>>

RECURSIVE Digits(_)
\* decimal digits of n >= 0
Digits(n) == IF n < 10 THEN <<48 + n>> ELSE Digits(n \div 10) \o <<48 + (n % 10)>>

\* an int64 as a JSON number (strconv.AppendInt, base 10)
MarshalInt(n) == IF n < 0 THEN <<45>> \o Digits(-n) ELSE Digits(n)

\* "name":value
Member(name, value) == MarshalString(name) \o <<58>> \o value

\* {members joined by ','}
MarshalObject(members) == <<123>> \o Join(members, 44) \o <<125>>

\* JSON names of the header and of the standard claims
K_alg == <<97, 108, 103>>
K_typ == <<116, 121, 112>>
K_aud == <<97, 117, 100>>
K_exp == <<101, 120, 112>>
K_jti == <<106, 116, 105>>
K_iat == <<105, 97, 116>>
K_iss == <<105, 115, 115>>
K_nbf == <<110, 98, 102>>
K_sub == <<115, 117, 98>>
\* "JWT"
V_JWT == <<74, 87, 84>>

\* json.Marshal(t.Header) for the header NewWithClaims builds (two string
\* values): a map is written with its keys sorted
MarshalHeader(h) ==
    MarshalObject(<< Member(K_alg, MarshalString(h[K_alg].val)),
                     Member(K_typ, MarshalString(h[K_typ].val)) >>)

\* one struct field under `omitempty`: nothing when the value is empty
StrField(name, v) == IF v = <<>> THEN <<>> ELSE << Member(name, MarshalString(v)) >>
IntField(name, v) == IF v = 0 THEN <<>> ELSE << Member(name, MarshalInt(v)) >>

\* json.Marshal(t.Claims) for a StandardClaims value: fields in struct
\* order under their json tags
MarshalClaims(c) ==
    MarshalObject(StrField(K_aud, c.Audience) \o IntField(K_exp, c.ExpiresAt)
                  \o StrField(K_jti, c.Id) \o IntField(K_iat, c.IssuedAt)
                  \o StrField(K_iss, c.Issuer) \o IntField(K_nbf, c.NotBefore)
                  \o StrField(K_sub, c.Subject))

\* MapClaims{}: the generic claim set, empty
EmptyMapClaims == [Map |-> <<>>]
IsMapClaims(c) == "Map" \in DOMAIN c

\* json.Marshal of a Claims value: an empty map is "{}"
JsonMarshal(c) == IF IsMapClaims(c) THEN MarshalObject(<<>>) ELSE MarshalClaims(c)

\* ------------------------------------------------------------------------
\* JSON decoding (encoding/json Unmarshal), as the parser applies it to the
\* decoded header and claims segments.  Modelled input domain: one object
\* whose values are strings, numbers, true, false or null; integers of at
\* most MaxDigits digits; ASCII field names.
\* ------------------------------------------------------------------------

ErrSyntax == [ok |-> FALSE, err |-> "SyntaxError"]
ErrType == [ok |-> FALSE, err |-> "UnmarshalTypeError"]
ErrUnsupported == [ok |-> FALSE, err |-> "outside the modelled JSON domain"]

\* the longest integer literal the model converts
MaxDigits == 9

JsonSpace == {32, 9, LF, CR}

IsDigit(c) == c >= 48 /\ c <= 57

At(s, i) == IF i >= 1 /\ i <= Len(s) THEN s[i] ELSE -1

RECURSIVE SkipWS(_, _)
SkipWS(s, i) == IF At(s, i) \in JsonSpace THEN SkipWS(s, i + 1) ELSE i

HexVal(c) ==
    IF IsDigit(c) THEN c - 48
    ELSE IF c >= 97 /\ c <= 102 THEN c - 97 + 10
    ELSE IF c >= 65 /\ c <= 70 THEN c - 65 + 10
    ELSE -1

\* getu4: the code unit of the escape whose 'u' is at s[i - 1]; -1 if malformed
U4(s, i) ==
    LET a == HexVal(At(s, i))
        b == HexVal(At(s, i + 1))
        c == HexVal(At(s, i + 2))
        d == HexVal(At(s, i + 3))
    IN  IF a < 0 \/ b < 0 \/ c < 0 \/ d < 0 THEN -1
        ELSE a * 4096 + b * 256 + c * 16 + d

SimpleEscape(c) ==
    IF c \in {QUOTE, BACKSLASH, 47} THEN c
    ELSE IF c = 98 THEN 8
    ELSE IF c = 102 THEN 12
    ELSE IF c = 110 THEN LF
    ELSE IF c = 114 THEN CR
    ELSE IF c = 116 THEN 9
    ELSE -1

RECURSIVE ReadString(_, _, _)
\* the string literal whose opening quote is at s[j - 1] (unquote): escapes
\* are resolved, \u escapes become UTF-8, invalid UTF-8 becomes U+FFFD
ReadString(s, j, acc) ==
    LET c == At(s, j)
    IN  IF c < 32 THEN ErrSyntax
        ELSE IF c = QUOTE THEN [ok |-> TRUE, val |-> acc, next |-> j + 1]
        ELSE IF c = BACKSLASH THEN
            LET e == At(s, j + 1)
            IN  IF e = 117 THEN
                    LET r == U4(s, j + 2)
                        lo == IF At(s, j + 6) = BACKSLASH /\ At(s, j + 7) = 117
                              THEN U4(s, j + 8) ELSE -1
                    IN  IF r < 0 THEN ErrSyntax
                        ELSE IF r >= 55296 /\ r <= 56319 /\ lo >= 56320 /\ lo <= 57343
                        THEN ReadString(s, j + 12,
                                 acc \o EncodeRune(65536 + (r - 55296) * 1024 + (lo - 56320)))
                        ELSE ReadString(s, j + 6, acc \o EncodeRune(r))
                ELSE IF SimpleEscape(e) < 0 THEN ErrSyntax
                ELSE ReadString(s, j + 2, Append(acc, SimpleEscape(e)))
        ELSE IF c < 128 THEN ReadString(s, j + 1, Append(acc, c))
        ELSE
            LET n == RuneSize(s, j)
            IN  IF n = 0 THEN ReadString(s, j + 1, acc \o ReplacementBytes)
                ELSE ReadString(s, j + n, acc \o SubSeq(s, j, j + n - 1))

RECURSIVE SkipDigits(_, _)
SkipDigits(s, i) == IF IsDigit(At(s, i)) THEN SkipDigits(s, i + 1) ELSE i

\* the end of the integer part that starts at s[i1]: 0 | [1-9][0-9]*
IntEnd(s, i1) == IF At(s, i1) = 48 THEN i1 + 1 ELSE SkipDigits(s, i1)

\* the end of the fraction, if any, that starts at s[i2]: . [0-9]+
FracEnd(s, i2) == IF At(s, i2) = 46 THEN SkipDigits(s, i2 + 1) ELSE i2

\* the first digit of the exponent, if any, that starts at s[f1]: [eE] [+-]?
ExpDigits(s, f1) ==
    IF At(s, f1) \in {101, 69}
    THEN (IF At(s, f1 + 1) \in {43, 45} THEN f1 + 2 ELSE f1 + 1)
    ELSE f1

\* the number literal s[i .. e1 - 1], given where its parts end
NumberLiteral(s, i, i1, i2, f1, e0, e1) ==
    IF i2 = i1 THEN ErrSyntax
    ELSE IF At(s, i2) = 46 /\ f1 = i2 + 1 THEN ErrSyntax
    ELSE IF e0 > f1 /\ e1 = e0 THEN ErrSyntax
    ELSE [ok |-> TRUE, kind |-> "number", val |-> SubSeq(s, i, e1 - 1), next |-> e1]

\* a JSON number starting at s[i]: -? (0 | [1-9][0-9]*) (. [0-9]+)? ([eE] [+-]? [0-9]+)?
ReadNumber(s, i) ==
    LET i1 == IF At(s, i) = 45 THEN i + 1 ELSE i
        i2 == IntEnd(s, i1)
        f1 == FracEnd(s, i2)
        e0 == ExpDigits(s, f1)
        e1 == IF e0 > f1 THEN SkipDigits(s, e0) ELSE f1
    IN  NumberLiteral(s, i, i1, i2, f1, e0, e1)

Literal(s, i, word, kind) ==
    IF i + Len(word) - 1 <= Len(s) /\ SubSeq(s, i, i + Len(word) - 1) = word
    THEN [ok |-> TRUE, kind |-> kind, val |-> <<>>, next |-> i + Len(word)]
    ELSE ErrSyntax

\* the value a string literal read as r stands for
StringValue(r) ==
    IF r.ok THEN [ok |-> TRUE, kind |-> "string", val |-> r.val, next |-> r.next]
    ELSE r

\* one JSON value starting at s[i]
ReadValue(s, i) ==
    LET c == At(s, i)
    IN  IF c = QUOTE THEN StringValue(ReadString(s, i + 1, <<>>))
        ELSE IF c = 45 \/ IsDigit(c) THEN ReadNumber(s, i)
        ELSE IF c = 116 THEN Literal(s, i, <<116, 114, 117, 101>>, "true")
        ELSE IF c = 102 THEN Literal(s, i, <<102, 97, 108, 115, 101>>, "false")
        ELSE IF c = 110 THEN Literal(s, i, <<110, 117, 108, 108>>, "null")
        ELSE IF c = 123 \/ c = 91 THEN ErrUnsupported
        ELSE ErrSyntax

RECURSIVE ReadMembers(_, _, _)

\* the members of an object after all, the last of which ends at s[e - 1]:
\* ',' and more members, or '}'
MembersAfter(s, e, all) ==
    IF At(s, e) = 44 THEN ReadMembers(s, SkipWS(s, e + 1), all)
    ELSE IF At(s, e) = 125 THEN [ok |-> TRUE, members |-> all, next |-> e + 1]
    ELSE ErrSyntax

\* the member called name, whose value was read as v
MemberValue(s, name, v, acc) ==
    IF ~v.ok THEN v
    ELSE MembersAfter(s, SkipWS(s, v.next),
                      Append(acc, [key |-> name, kind |-> v.kind, val |-> v.val]))

\* the member called name, the name ending at s[j - 1]: ':' and a value
MemberColon(s, name, j, acc) ==
    IF At(s, j) # 58 THEN ErrSyntax
    ELSE MemberValue(s, name, ReadValue(s, SkipWS(s, j + 1)), acc)

\* the member whose name was read as k
MemberName(s, k, acc) ==
    IF ~k.ok THEN k ELSE MemberColon(s, k.val, SkipWS(s, k.next), acc)

\* the members of an object, the first of them starting at s[i]
ReadMembers(s, i, acc) ==
    IF At(s, i) # QUOTE THEN ErrSyntax
    ELSE MemberName(s, ReadString(s, i + 1, <<>>), acc)

\* the members of the object whose '{' is at s[j - 1]
ObjectFrom(s, j) ==
    IF At(s, j) = 125 THEN [ok |-> TRUE, members |-> <<>>, next |-> j + 1]
    ELSE ReadMembers(s, j, <<>>)

\* nothing but white space may follow the object read as r
ObjectToEnd(s, r) ==
    IF ~r.ok THEN r
    ELSE IF SkipWS(s, r.next) # Len(s) + 1 THEN ErrSyntax
    ELSE r

\* the value starting at s[i] that is the whole of s: null leaves the target
\* as it was; anything but an object is outside the modelled domain or wrong
ObjectAt(s, i, nul) ==
    IF nul.ok /\ SkipWS(s, nul.next) = Len(s) + 1
    THEN [ok |-> TRUE, members |-> <<>>, next |-> nul.next]
    ELSE IF At(s, i) # 123 THEN (IF At(s, i) = 91 THEN ErrUnsupported ELSE ErrSyntax)
    ELSE ObjectToEnd(s, ObjectFrom(s, SkipWS(s, i + 1)))

\* the members of the JSON object that is the whole of s
ParseObject(s) ==
    LET i == SkipWS(s, 1)
    IN  ObjectAt(s, i, Literal(s, i, <<110, 117, 108, 108>>, "null"))

\* the index of the last member of name k
LastOf(members, k) ==
    CHOOSE i \in 1..Len(members) :
        /\ members[i].key = k
        /\ \A j \in (i + 1)..Len(members) : members[j].key # k

\* the map the object read as r is stored into
MapOf(r) ==
    IF ~r.ok THEN r
    ELSE [ok |-> TRUE,
          map |-> [k \in {r.members[i].key : i \in 1..Len(r.members)} |->
                      [kind |-> r.members[LastOf(r.members, k)].kind,
                       val |-> r.members[LastOf(r.members, k)].val]]]

\* json.Unmarshal into a map[string]interface{}: the value of each key is
\* the one of its last occurrence
UnmarshalMap(s) == MapOf(ParseObject(s))

\* ASCII case folding of a field name
Fold(k) == [i \in 1..Len(k) |-> IF k[i] >= 65 /\ k[i] <= 90 THEN k[i] + 32 ELSE k[i]]

RECURSIVE Atoi(_, _, _)
Atoi(lit, i, acc) ==
    IF i > Len(lit) THEN acc ELSE Atoi(lit, i + 1, acc * 10 + (lit[i] - 48))

\* strconv.ParseInt of a number literal: its value, or no value when the
\* literal has a fraction or an exponent
ParseInt(lit) ==
    LET neg == lit[1] = 45
        ds == IF neg THEN Tail(lit) ELSE lit
    IN  IF \E i \in 1..Len(ds) : ~IsDigit(ds[i]) THEN ErrType
        ELSE IF Len(ds) > MaxDigits THEN ErrUnsupported
        ELSE [ok |-> TRUE, n |-> IF neg THEN -Atoi(ds, 1, 0) ELSE Atoi(ds, 1, 0)]

\* the zero value of StandardClaims
ZeroClaims ==
    [Audience |-> <<>>, ExpiresAt |-> 0, Id |-> <<>>, IssuedAt |-> 0,
     Issuer |-> <<>>, NotBefore |-> 0, Subject |-> <<>>]

\* the struct field a JSON name selects (names match without regard to case)
FieldOf(k) ==
    LET f == Fold(k)
    IN  IF f = K_aud THEN "Audience"
        ELSE IF f = K_exp THEN "ExpiresAt"
        ELSE IF f = K_jti THEN "Id"
        ELSE IF f = K_iat THEN "IssuedAt"
        ELSE IF f = K_iss THEN "Issuer"
        ELSE IF f = K_nbf THEN "NotBefore"
        ELSE IF f = K_sub THEN "Subject"
        ELSE "none"

IntFields == {"ExpiresAt", "IssuedAt", "NotBefore"}

RECURSIVE Fill(_, _, _)
\* the members stored one after the other into the claims c; a value of the
\* wrong JSON type, or a number that is no int64, is an error
Fill(members, i, c) ==
    IF i > Len(members) THEN [ok |-> TRUE, claims |-> c]
    ELSE
      LET m == members[i]
          f == FieldOf(m.key)
      IN  IF f = "none" \/ m.kind = "null" THEN Fill(members, i + 1, c)
          ELSE IF f \in IntFields THEN
              (IF m.kind # "number" THEN ErrType
               ELSE LET n == ParseInt(m.val)
                    IN  IF n.ok THEN Fill(members, i + 1, [c EXCEPT ![f] = n.n])
                        ELSE n)
          ELSE IF m.kind # "string" THEN ErrType
          ELSE Fill(members, i + 1, [c EXCEPT ![f] = m.val])

\* the claims the object read as r is stored into
ClaimsOf(r) == IF r.ok THEN Fill(r.members, 1, ZeroClaims) ELSE r

\* json.Unmarshal into a fresh StandardClaims
UnmarshalClaims(s) == ClaimsOf(ParseObject(s))

\* ------------------------------------------------------------------------
\* State
\* ------------------------------------------------------------------------

VARIABLES
    now,            \* what TimeFunc().Unix() returns
    linked,         \* the crypto.Hash functions linked into the binary
    signingMethods, \* the signing-method registry
    issued,         \* the last SignedString call: method, key, claims, result
    pc,             \* the stage the parser is at
    tokenString,    \* Parse's first argument
    keyFunc,        \* Parse's second argument: what the callback returns
    parts,          \* the segments of tokenString
    token,          \* the token Parse builds
    key,            \* what the key callback returned
    vErr,           \* the parser's aggregate ValidationError
    result,         \* what Parse returned: [token, err]
    ran,            \* the parser stages that have run (history)
    verifyErr,      \* what Method.Verify returned in this parse (history)
    claimsErr,      \* what Claims.Valid returned in this parse (history)
    clockRead,      \* what TimeFunc returned to Claims.Valid (history)
    call            \* the last direct call of a library function and its result

vars == << now, linked, signingMethods, issued, pc, tokenString, keyFunc, parts,
           token, key, vErr, result, ran, verifyErr, claimsErr, clockRead, call >>

\* ------------------------------------------------------------------------
\* Errors (the unnamed source file)
\* ------------------------------------------------------------------------

\* a nil error
NoError == [kind |-> "nil"]
ErrInvalidKey == [kind |-> "ErrInvalidKey"]
ErrInvalidKeyType == [kind |-> "ErrInvalidKeyType"]
ErrHashUnavailable == [kind |-> "ErrHashUnavailable"]
ErrSignatureInvalid == [kind |-> "ErrSignatureInvalid"]
\* the error a failed decode returns
DecodeError(r) == [kind |-> r.err]
\* fmt.Errorf(msg, arg)
Errorf(msg, arg) == [kind |-> "errorString", msg |-> msg, arg |-> arg]

\* 1 << iota
ValidationErrorMalformed == 1
ValidationErrorUnverifiable == 2
ValidationErrorSignatureInvalid == 4
ValidationErrorAudience == 8
ValidationErrorExpired == 16
ValidationErrorIssuedAt == 32
ValidationErrorIssuer == 64
ValidationErrorNotValidYet == 128
ValidationErrorId == 256
ValidationErrorClaimsInvalid == 512

\* variant: an assignment in place of |=, losing the bits set before
BitOr_overwrite(a, b) == b

RECURSIVE BitOr(_, _)
\* a | b
BitOr(a, b) ==
    IF a = 0 THEN b
    ELSE IF b = 0 THEN a
    ELSE (IF a % 2 = 1 \/ b % 2 = 1 THEN 1 ELSE 0) + 2 * BitOr(a \div 2, b \div 2)

RECURSIVE BitXor(_, _)
\* a ^ b
BitXor(a, b) ==
    IF a = 0 THEN b
    ELSE IF b = 0 THEN a
    ELSE (((a % 2) + (b % 2)) % 2) + 2 * BitXor(a \div 2, b \div 2)

\* bits & flag != 0, for a one-bit flag
Has(bits, flag) == (bits \div flag) % 2 = 1

\* new(ValidationError)
NewError == [kind |-> "ValidationError", Inner |-> NoError, Errors |-> 0, text |-> ""]

\* variant: a constructor that drops the flags it is given
NewValidationError_noFlags(errorText, errorFlags) ==
    [kind |-> "ValidationError", Inner |-> NoError, Errors |-> 0,
     text |-> errorText]

NewValidationError(errorText, errorFlags) ==
    [kind |-> "ValidationError", Inner |-> NoError, Errors |-> errorFlags,
     text |-> errorText]

\* variant: the test inverted
valid_inverted(e) == e.Errors # 0

\* ValidationError.valid()
valid(e) == e.Errors = 0

\* ------------------------------------------------------------------------
\* Claims validation (claims.go)
\* ------------------------------------------------------------------------

RECURSIVE OrOfXors(_, _, _, _)
\* the OR of x[i] ^ y[i] over i in lo..hi
OrOfXors(x, y, lo, hi) ==
    IF lo > hi THEN 0
    ELSE IF lo = hi THEN BitXor(x[lo], y[lo])
    ELSE BitOr(OrOfXors(x, y, lo, (lo + hi) \div 2),
               OrOfXors(x, y, (lo + hi) \div 2 + 1, hi))

\* subtle.ConstantTimeCompare: 1 when x and y have equal contents, else 0
ConstantTimeCompare(x, y) ==
    IF Len(x) # Len(y) THEN 0
    ELSE IF OrOfXors(x, y, 1, Len(x)) = 0 THEN 1 ELSE 0

\* variant: a set claim that differs passes when the claim is not required
verifyAud_lenient(aud, cmp, required) ==
    IF aud = <<>> THEN ~required
    ELSE ~required \/ ConstantTimeCompare(aud, cmp) # 0

verifyAud(aud, cmp, required) ==
    IF aud = <<>> THEN ~required
    ELSE IF ConstantTimeCompare(aud, cmp) # 0 THEN TRUE ELSE FALSE

\* variant: the token expires at exp, not after it
verifyExp_strict(exp, t, required) ==
    IF exp = 0 THEN ~required ELSE t < exp

verifyExp(exp, t, required) ==
    IF exp = 0 THEN ~required ELSE t <= exp

verifyIat(iat, t, required) ==
    IF iat = 0 THEN ~required ELSE t >= iat

verifyIss(iss, cmp, required) ==
    IF iss = <<>> THEN ~required
    ELSE IF ConstantTimeCompare(iss, cmp) # 0 THEN TRUE ELSE FALSE

verifyNbf(nbf, t, required) ==
    IF nbf = 0 THEN ~required ELSE t >= nbf

VerifyAudience(c, cmp, req) == verifyAud(c.Audience, cmp, req)
VerifyExpiresAt(c, cmp, req) == verifyExp(c.ExpiresAt, cmp, req)
VerifyIssuedAt(c, cmp, req) == verifyIat(c.IssuedAt, cmp, req)
VerifyIssuer(c, cmp, req) == verifyIss(c.Issuer, cmp, req)
VerifyNotBefore(c, cmp, req) == verifyNbf(c.NotBefore, cmp, req)

\* variant: the three checks made with required = true
StandardClaimsValid_required(c, t) ==
    LET bits == (IF VerifyExpiresAt(c, t, TRUE) THEN 0 ELSE ValidationErrorExpired)
                + (IF VerifyIssuedAt(c, t, TRUE) THEN 0 ELSE ValidationErrorIssuedAt)
                + (IF VerifyNotBefore(c, t, TRUE) THEN 0 ELSE ValidationErrorNotValidYet)
    IN  IF bits = 0 THEN NoError
        ELSE [NewError EXCEPT !.Inner = Errorf("token is not valid yet", 0),
                              !.Errors = bits]

\* StandardClaims.Valid() when TimeFunc().Unix() returns t: the three time
\* checks in turn, each failure setting its bit and replacing Inner
StandardClaimsValid(c, t) ==
    LET e1 == IF VerifyExpiresAt(c, t, FALSE) = FALSE
              THEN [NewError EXCEPT
                      !.Inner = Errorf("token is expired by %v", t - c.ExpiresAt),
                      !.Errors = BitOr(@, ValidationErrorExpired)]
              ELSE NewError
        e2 == IF VerifyIssuedAt(c, t, FALSE) = FALSE
              THEN [e1 EXCEPT
                      !.Inner = Errorf("Token used before issued", 0),
                      !.Errors = BitOr(@, ValidationErrorIssuedAt)]
              ELSE e1
        e3 == IF VerifyNotBefore(c, t, FALSE) = FALSE
              THEN [e2 EXCEPT
                      !.Inner = Errorf("token is not valid yet", 0),
                      !.Errors = BitOr(@, ValidationErrorNotValidYet)]
              ELSE e2
    IN  IF valid(e3) THEN NoError ELSE e3

\* ------------------------------------------------------------------------
\* HMAC signing methods (hmac.go)
\* ------------------------------------------------------------------------

\* "HS256", "HS384", "HS512"
N_HS256 == <<72, 83, 50, 53, 54>>
N_HS384 == <<72, 83, 51, 56, 52>>
N_HS512 == <<72, 83, 53, 49, 50>>

SigningMethodHS256 == [Name |-> N_HS256, Hash |-> "SHA256"]
SigningMethodHS384 == [Name |-> N_HS384, Hash |-> "SHA384"]
SigningMethodHS512 == [Name |-> N_HS512, Hash |-> "SHA512"]

\* a nil SigningMethod
NilMethod == [Name |-> <<>>, Hash |-> "nil"]

Hashes == {"SHA256", "SHA384", "SHA512"}

\* output and block sizes of the hash functions, in bytes
HashSize(h) == IF h = "SHA256" THEN 32 ELSE IF h = "SHA384" THEN 48 ELSE 64
BlockSize(h) == IF h = "SHA256" THEN 64 ELSE 128

\* crypto.Hash.Available()
Available(h) == h \in linked

Alg(m) == m.Name

\* ------------------------------------------------------------------------
\* SHA-2 (FIPS 180-4) as crypto/sha256 and crypto/sha512 compute it.  A
\* word is a tuple of 16-bit limbs, the most significant first: two limbs
\* for the 32-bit words of SHA-256, four for the 64-bit words of SHA-384
\* and SHA-512.
\* ------------------------------------------------------------------------

\* Pow2[n + 1] = 2^n
Pow2 ==
    <<1, 2, 4, 8, 16, 32, 64, 128, 256, 512, 1024, 2048, 4096, 8192, 16384,
      32768, 65536>>

\* XorNibble[a + 1][b + 1] = a ^ b for a, b < 16
XorNibble ==
    SubSeq([a \in 1..16 |-> SubSeq([b \in 1..16 |-> BitXor(a - 1, b - 1)], 1, 16)],
           1, 16)

\* a ^ b for a, b < 256
XorOfBytes(a, b) ==
    XorNibble[a \div 16 + 1][b \div 16 + 1] * 16 + XorNibble[(a % 16) + 1][(b % 16) + 1]

\* XorByte[a + 1][b + 1] = a ^ b for a, b < 256
XorByte ==
    SubSeq([a \in 1..256 |-> SubSeq([b \in 1..256 |-> XorOfBytes(a - 1, b - 1)], 1, 256)],
           1, 256)

\* a ^ b, a & b and ^a on limbs
Xor16(a, b) ==
    XorByte[a \div 256 + 1][b \div 256 + 1] * 256 + XorByte[(a % 256) + 1][(b % 256) + 1]
And16(a, b) == (a + b - Xor16(a, b)) \div 2
Not16(a) == 65535 - a

\* the word of the limb sums x1, x2: the carries taken, the one out of the
\* most significant limb dropped (the sum is modulo the word size)
Norm2(x1, x2) == << (x1 + x2 \div 65536) % 65536, x2 % 65536 >>

\* the same for four limbs, the lower ones done
Norm4c(x1, y2, l3, l4) == << (x1 + y2 \div 65536) % 65536, y2 % 65536, l3, l4 >>
Norm4b(x1, x2, y3, l4) == Norm4c(x1, x2 + y3 \div 65536, y3 % 65536, l4)
Norm4(x1, x2, x3, x4) == Norm4b(x1, x2, x3 + x4 \div 65536, x4 % 65536)

\* a + b on words; a and b may be limb sums whose carries are not yet taken
AddW(a, b) ==
    IF Len(a) = 2 THEN Norm2(a[1] + b[1], a[2] + b[2])
    ELSE Norm4(a[1] + b[1], a[2] + b[2], a[3] + b[3], a[4] + b[4])

\* limb i of bits.RotateLeft(a, -n), a of L limbs
RotLimb(a, L, i, n) ==
    a[((i - 1 - n \div 16 + L) % L) + 1] \div Pow2[(n % 16) + 1]
    + (a[((i - 2 - n \div 16 + 2 * L) % L) + 1] % Pow2[(n % 16) + 1]) * Pow2[17 - (n % 16)]

\* limb i of a, zero above the most significant limb
LimbOrZero(a, i) == IF i >= 1 THEN a[i] ELSE 0

\* limb i of a >> n
ShLimb(a, i, n) ==
    LimbOrZero(a, i - n \div 16) \div Pow2[(n % 16) + 1]
    + (LimbOrZero(a, i - 1 - n \div 16) % Pow2[(n % 16) + 1]) * Pow2[17 - (n % 16)]

\* sha256: the round constants _K
K256 ==
    << <<17034, 12184>>, <<28983, 17553>>, <<46528, 64463>>, <<59829, 56229>>,
       <<14678, 49755>>, <<23025, 4593>>, <<37439, 33444>>, <<43804, 24277>>,
       <<55303, 43672>>, <<4739, 23297>>, <<9265, 34238>>, <<21772, 32195>>,
       <<29374, 23924>>, <<32990, 45566>>, <<39900, 1703>>, <<49563, 61812>>,
       <<58523, 27073>>, <<61374, 18310>>, <<4033, 40390>>, <<9228, 41420>>,
       <<11753, 11375>>, <<19060, 33962>>, <<23728, 43484>>, <<30457, 35034>>,
       <<38974, 20818>>, <<43057, 50797>>, <<45059, 10184>>, <<48985, 32711>>,
       <<50912, 3059>>, <<54695, 37191>>, <<1738, 25425>>, <<5161, 10599>>,
       <<10167, 2693>>, <<11803, 8504>>, <<19756, 28156>>, <<21304, 3347>>,
       <<25866, 29524>>, <<30314, 2747>>, <<33218, 51502>>, <<37490, 11397>>,
       <<41663, 59553>>, <<43034, 26187>>, <<49739, 35696>>, <<51052, 20899>>,
       <<53650, 59417>>, <<54937, 1572>>, <<62478, 13701>>, <<4202, 41072>>,
       <<6564, 49430>>, <<7735, 27656>>, <<10056, 30540>>, <<13488, 48309>>,
       <<14620, 3251>>, <<20184, 43594>>, <<23452, 51791>>, <<26670, 28659>>,
       <<29839, 33518>>, <<30885, 25455>>, <<33992, 30740>>, <<36039, 520>>,
       <<37054, 65530>>, <<42064, 27883>>, <<48889, 41975>>, <<50801, 30962>> >>

\* sha512: the round constants _K
K512 ==
    << <<17034, 12184, 55080, 44578>>, <<28983, 17553, 9199, 26061>>,
       <<46528, 64463, 60493, 15151>>, <<59829, 56229, 33161, 56252>>,
       <<14678, 49755, 62280, 46392>>, <<23025, 4593, 46597, 53273>>,
       <<37439, 33444, 44825, 20379>>, <<43804, 24277, 55917, 33048>>,
       <<55303, 43672, 41731, 578>>, <<4739, 23297, 17776, 28606>>,
       <<9265, 34238, 20196, 45708>>, <<21772, 32195, 54783, 46306>>,
       <<29374, 23924, 62075, 35183>>, <<32990, 45566, 15126, 38577>>,
       <<39900, 1703, 9671, 4661>>, <<49563, 61812, 53097, 9876>>,
       <<58523, 27073, 40689, 19154>>, <<61374, 18310, 14415, 9699>>,
       <<4033, 40390, 35724, 54709>>, <<9228, 41420, 30636, 40037>>,
       <<11753, 11375, 22827, 629>>, <<19060, 33962, 28326, 58499>>,
       <<23728, 43484, 48449, 64468>>, <<30457, 35034, 33553, 21429>>,
       <<38974, 20818, 61030, 57259>>, <<43057, 50797, 11700, 12816>>,
       <<45059, 10184, 39163, 8511>>, <<48985, 32711, 48879, 3812>>,
       <<50912, 3059, 15784, 36802>>, <<54695, 37191, 37642, 42789>>,
       <<1738, 25425, 57347, 33391>>, <<5161, 10599, 2574, 28272>>,
       <<10167, 2693, 18130, 12284>>, <<11803, 8504, 23590, 51494>>,
       <<19756, 28156, 23236, 10989>>, <<21304, 3347, 40341, 46047>>,
       <<25866, 29524, 35759, 25566>>, <<30314, 2747, 15479, 45736>>,
       <<33218, 51502, 18413, 44774>>, <<37490, 11397, 5250, 13627>>,
       <<41663, 59553, 19697, 868>>, <<43034, 26187, 48194, 12289>>,
       <<49739, 35696, 53496, 38801>>, <<51052, 20899, 1620, 48688>>,
       <<53650, 59417, 55023, 21016>>, <<54937, 1572, 21861, 43280>>,
       <<62478, 13701, 22385, 8234>>, <<4202, 41072, 12987, 53688>>,
       <<6564, 49430, 47314, 53448>>, <<7735, 27656, 20801, 43859>>,
       <<10056, 30540, 57230, 60313>>, <<13488, 48309, 57755, 18600>>,
       <<14620, 3251, 50633, 23139>>, <<20184, 43594, 58177, 35531>>,
       <<23452, 51791, 30563, 58227>>, <<26670, 28659, 54962, 47267>>,
       <<29839, 33518, 24047, 45820>>, <<30885, 25455, 17175, 12128>>,
       <<33992, 30740, 41456, 43890>>, <<36039, 520, 6756, 14828>>,
       <<37054, 65530, 9059, 7720>>, <<42064, 27883, 56962, 48617>>,
       <<48889, 41975, 45766, 30997>>, <<50801, 30962, 58226, 21291>>,
       <<51751, 16078, 59942, 24988>>, <<53638, 47303, 8640, 49671>>,
       <<60122, 32214, 52704, 60190>>, <<62845, 20351, 61038, 53624>>,
       <<1776, 26538, 29207, 28602>>, <<2659, 32197, 41672, 39078>>,
       <<4415, 38916, 48889, 3502>>, <<7025, 2869, 4892, 18203>>,
       <<10459, 30709, 8964, 32132>>, <<13002, 43899, 16583, 9363>>,
       <<15518, 48650, 5577, 48828>>, <<17181, 26564, 39952, 3404>>,
       <<19653, 54462, 52030, 17078>>, <<22911, 10652, 64613, 32298>>,
       <<24523, 28587, 15062, 64236>>, <<27716, 6540, 19015, 22551>> >>

\* sha256: the initial hash value init0 .. init7
Init256 ==
    << <<27145, 58983>>, <<47975, 44677>>, <<15470, 62322>>, <<42319, 62778>>,
       <<20750, 21119>>, <<39685, 26764>>, <<8067, 55723>>, <<23520, 52505>> >>

\* sha512: the initial hash value of SHA-384
Init384 ==
    << <<52155, 40285, 49413, 40664>>, <<25242, 10538, 13948, 54535>>,
       <<37209, 346, 12400, 56599>>, <<5423, 60632, 63246, 22841>>,
       <<26419, 9831, 65472, 2865>>, <<36532, 19079, 26712, 5393>>,
       <<56076, 11789, 25849, 36775>>, <<18357, 18461, 48890, 20388>> >>

\* sha512: the initial hash value of SHA-512
Init512 ==
    << <<27145, 58983, 62396, 51464>>, <<47975, 44677, 33994, 42811>>,
       <<15470, 62322, 65172, 63531>>, <<42319, 62778, 24349, 14065>>,
       <<20750, 21119, 44518, 33489>>, <<39685, 26764, 11070, 27679>>,
       <<8067, 55723, 64321, 48491>>, <<23520, 52505, 4990, 8569>> >>

\* what tells the three functions apart: word and block size, constants,
\* rotation counts, initial value and the length of the sum
Sha256Params ==
    [limbs |-> 2, block |-> 64, rounds |-> 64, size |-> 32, K |-> K256, init |-> Init256,
     S0 |-> <<2, 13, 22>>, S1 |-> <<6, 11, 25>>, s0 |-> <<7, 18, 3>>, s1 |-> <<17, 19, 10>>]
Sha384Params ==
    [limbs |-> 4, block |-> 128, rounds |-> 80, size |-> 48, K |-> K512, init |-> Init384,
     S0 |-> <<28, 34, 39>>, S1 |-> <<14, 18, 41>>, s0 |-> <<1, 8, 7>>, s1 |-> <<19, 61, 6>>]
Sha512Params ==
    [limbs |-> 4, block |-> 128, rounds |-> 80, size |-> 64, K |-> K512, init |-> Init512,
     S0 |-> <<28, 34, 39>>, S1 |-> <<14, 18, 41>>, s0 |-> <<1, 8, 7>>, s1 |-> <<19, 61, 6>>]
ShaParams(h) ==
    IF h = "SHA256" THEN Sha256Params
    ELSE IF h = "SHA384" THEN Sha384Params
    ELSE Sha512Params

\* limb i of rotr(a, r1) ^ rotr(a, r2) ^ rotr(a, r3), in the rounds
BigSigma(a, L, i, r) ==
    Xor16(Xor16(RotLimb(a, L, i, r[1]), RotLimb(a, L, i, r[2])), RotLimb(a, L, i, r[3]))

\* limb i of rotr(a, r1) ^ rotr(a, r2) ^ (a >> r3), in the message schedule
SmallSigma(a, L, i, r) ==
    Xor16(Xor16(RotLimb(a, L, i, r[1]), RotLimb(a, L, i, r[2])), ShLimb(a, i, r[3]))

\* (e & f) ^ (^e & g), on limbs
Ch(e, f, g) == Xor16(And16(e, f), And16(Not16(e), g))

\* (a & b) ^ (a & c) ^ (b & c), on limbs
Maj(a, b, c) == Xor16(Xor16(And16(a, b), And16(a, c)), And16(b, c))

\* the word of the limbs made of the bytes m[o + 1 ..]
WordAt(p, m, o) ==
    IF p.limbs = 2
    THEN << m[o + 1] * 256 + m[o + 2], m[o + 3] * 256 + m[o + 4] >>
    ELSE << m[o + 1] * 256 + m[o + 2], m[o + 3] * 256 + m[o + 4],
            m[o + 5] * 256 + m[o + 6], m[o + 7] * 256 + m[o + 8] >>

\* limb i of sigma1(w[t-2]) + w[t-7] + sigma0(w[t-15]) + w[t-16], carries not taken
NextLimb(p, w, t, i) ==
    SmallSigma(w[t - 2], p.limbs, i, p.s1) + w[t - 7][i]
    + SmallSigma(w[t - 15], p.limbs, i, p.s0) + w[t - 16][i]

\* w[i] for i >= 16, from the words before it
NextW(p, w, t) ==
    IF p.limbs = 2 THEN Norm2(NextLimb(p, w, t, 1), NextLimb(p, w, t, 2))
    ELSE Norm4(NextLimb(p, w, t, 1), NextLimb(p, w, t, 2),
               NextLimb(p, w, t, 3), NextLimb(p, w, t, 4))

RECURSIVE Schedule(_, _, _)
\* the message schedule w with n more words
Schedule(p, w, n) ==
    IF n = 0 \/ Len(w) < 16 THEN w
    ELSE IF n = 1 THEN Append(w, NextW(p, w, Len(w) + 1))
    ELSE Schedule(p, Schedule(p, w, n \div 2), n - n \div 2)

\* limb i of t1 = h + Sigma1(e) + Ch(e, f, g) + k + w, carries not taken
T1Limb(p, s, k, w, i) ==
    s[8][i] + BigSigma(s[5], p.limbs, i, p.S1) + Ch(s[5][i], s[6][i], s[7][i]) + k[i] + w[i]

\* limb i of t2 = Sigma0(a) + Maj(a, b, c), carries not taken
T2Limb(p, s, i) ==
    BigSigma(s[1], p.limbs, i, p.S0) + Maj(s[1][i], s[2][i], s[3][i])

T1(p, s, k, w) ==
    IF p.limbs = 2 THEN << T1Limb(p, s, k, w, 1), T1Limb(p, s, k, w, 2) >>
    ELSE << T1Limb(p, s, k, w, 1), T1Limb(p, s, k, w, 2),
            T1Limb(p, s, k, w, 3), T1Limb(p, s, k, w, 4) >>

T2(p, s) ==
    IF p.limbs = 2 THEN << T2Limb(p, s, 1), T2Limb(p, s, 2) >>
    ELSE << T2Limb(p, s, 1), T2Limb(p, s, 2), T2Limb(p, s, 3), T2Limb(p, s, 4) >>

\* h, g, f, e, d, c, b, a = g, f, e, d + t1, c, b, a, t1 + t2
Rotate(s, t1, t2) ==
    << AddW(t1, t2), s[1], s[2], s[3], AddW(s[4], t1), s[5], s[6], s[7] >>

\* one round on the working variables s = <<a, b, c, d, e, f, g, h>>
Round(p, s, k, w) == Rotate(s, T1(p, s, k, w), T2(p, s))

RECURSIVE Rounds(_, _, _, _, _)
\* rounds lo .. hi
Rounds(p, s, w, lo, hi) ==
    IF lo > hi \/ Len(s) < 8 THEN s
    ELSE IF lo = hi THEN Round(p, s, p.K[lo], w[lo])
    ELSE Rounds(p, Rounds(p, s, w, lo, (lo + hi) \div 2), w, (lo + hi) \div 2 + 1, hi)

\* the hash value plus the working variables
AddState(H, s) ==
    << AddW(H[1], s[1]), AddW(H[2], s[2]), AddW(H[3], s[3]), AddW(H[4], s[4]),
       AddW(H[5], s[5]), AddW(H[6], s[6]), AddW(H[7], s[7]), AddW(H[8], s[8]) >>

\* the first sixteen words of the schedule: the block at m[o + 1 ..]
BlockWords(p, m, o) ==
    SubSeq([j \in 1..16 |-> WordAt(p, m, o + (j - 1) * 2 * p.limbs)], 1, 16)

\* block: the hash value H after the block at m[o + 1 ..]
Block(p, H, m, o) ==
    AddState(H, Rounds(p, H, Schedule(p, BlockWords(p, m, o), p.rounds - 16), 1, p.rounds))

RECURSIVE Blocks(_, _, _, _)
Blocks(p, H, m, o) ==
    IF o >= Len(m) THEN H ELSE Blocks(p, Block(p, H, m, o), m, o + p.block)

\* the bit length n of the message, big-endian in bytes bytes
LengthBytes(n, bytes) ==
    Repeat(0, bytes - 4)
    \o << (n \div 16777216) % 256, (n \div 65536) % 256, (n \div 256) % 256, n % 256 >>

\* checkSum: the message, 0x80, zeros up to a whole block and the bit length
Padded(p, data) ==
    data \o <<128>>
    \o Repeat(0, (2 * p.block - ((Len(data) + 1 + p.block \div 8) % p.block)) % p.block)
    \o LengthBytes(8 * Len(data), p.block \div 8)

\* byte i of the hash value H
SumByte(p, H, i) ==
    IF (i - 1) % 2 = 0
    THEN H[(i - 1) \div (2 * p.limbs) + 1][((i - 1) % (2 * p.limbs)) \div 2 + 1] \div 256
    ELSE H[(i - 1) \div (2 * p.limbs) + 1][((i - 1) % (2 * p.limbs)) \div 2 + 1] % 256

\* the first p.size bytes of the hash value H
SumBytes(p, H) == SubSeq([i \in 1..p.size |-> SumByte(p, H, i)], 1, p.size)

\* hash.Hash: Write(data), Sum(nil) with the hash function p
ShaSum(p, data) == SumBytes(p, Blocks(p, p.init, Padded(p, data), 0))

\* h.New(), Write(data), Sum(nil)
Digest(h, data) == ShaSum(ShaParams(h), data)

XorPad(block, pad) == [i \in 1..Len(block) |-> Xor16(block[i], pad)]

\* the key as hmac.New lays it out (RFC 2104): a key longer than a block is
\* hashed first, and the key is filled with zero bytes to the block size
KeyBlock(h, keyBytes) ==
    IF Len(keyBytes) > BlockSize(h)
    THEN Digest(h, keyBytes) \o Repeat(0, BlockSize(h) - HashSize(h))
    ELSE keyBytes \o Repeat(0, BlockSize(h) - Len(keyBytes))

\* the outer hash over the key block and the inner hash over block and msg
HmacOf(h, block, msg) ==
    Digest(h, XorPad(block, 92) \o Digest(h, XorPad(block, 54) \o msg))

\* hmac.New(h, key); Write(msg); Sum(nil)
Hmac(h, keyBytes, msg) == HmacOf(h, KeyBlock(h, keyBytes), msg)

\* ------------------------------------------------------------------------
\* Token (token.go): construction and signing string
\* ------------------------------------------------------------------------

Str(v) == [kind |-> "string", val |-> v]

NewWithClaims(method, claims) ==
    [Raw |-> <<>>, Method |-> method,
     Header |-> (K_typ :> Str(V_JWT)) @@ (K_alg :> Str(Alg(method))),
     Claims |-> claims, Signature |-> <<>>, Valid |-> FALSE]

New(method) == NewWithClaims(method, EmptyMapClaims)

\* Token.SigningString: header and claims, each JSON- then segment-encoded,
\* joined by '.'
SigningString(t) ==
    [val |-> Join(<< EncodeSegment(MarshalHeader(t.Header)),
                     EncodeSegment(JsonMarshal(t.Claims)) >>, DOT),
     err |-> NoError]

\* ------------------------------------------------------------------------
\* Methods, keys, claim sets and signing inputs drawn by the model
\* ------------------------------------------------------------------------

Methods == { SigningMethodHS256, SigningMethodHS384, SigningMethodHS512 }

BytesKey(v) == [type |-> "bytes", val |-> v]
\* a key of a type other than []byte
StringKey(v) == [type |-> "string", val |-> v]
NilKey == [type |-> "nil", val |-> <<>>]

\* "k", "k\x00" (equal once filled with zero bytes to the block size), "s3"
SecretKeys == { BytesKey(<<107>>), BytesKey(<<107, 0>>), BytesKey(<<115, 51>>) }

\* the keys SignedString is called with
SigningKeys == { BytesKey(<<107>>), BytesKey(<<115, 51>>), StringKey(<<107>>) }

S_svc_a == <<115, 118, 99, 45, 97>>

With(c, f, v) == [c EXCEPT ![f] = v]

\* the claim sets tokens are issued with
ClaimSets ==
    { ZeroClaims,
      With(With(ZeroClaims, "Issuer", S_svc_a), "ExpiresAt", 10),
      With(ZeroClaims, "ExpiresAt", 1),
      With(ZeroClaims, "ExpiresAt", -5),
      With(ZeroClaims, "IssuedAt", 2),
      With(With(With(ZeroClaims, "ExpiresAt", 1), "IssuedAt", 3), "NotBefore", 3),
      With(ZeroClaims, "Issuer", <<255>>),
      With(With(With(ZeroClaims, "Audience", <<97, 60>>), "Id", <<34, 49>>),
           "Subject", <<115>>),
      With(With(With(With(ZeroClaims, "ExpiresAt", 12), "IssuedAt", 1),
                "NotBefore", 1), "Audience", <<98>>) }

\* the <<method, claim set>> pairs tokens are issued with: HS256 signs every
\* claim set, HS384 and HS512 sign three of them
IssueInputs ==
    ({ SigningMethodHS256 } \X ClaimSets)
    \cup ({ SigningMethodHS384, SigningMethodHS512 }
          \X { ZeroClaims,
               With(With(ZeroClaims, "Issuer", S_svc_a), "ExpiresAt", 10),
               With(ZeroClaims, "ExpiresAt", -5) })

\* "none", "hs256": algorithm names the package registers no method under
N_none == <<110, 111, 110, 101>>
N_hs256 == <<104, 115, 50, 53, 54>>
UnsafeAlgs == { N_none, N_hs256 }

\* what the program registers: a method under "none", another method under
\* "HS512", and the package's own method under "HS512" again
Registrations ==
    { <<N_none, SigningMethodHS256>>, <<N_HS512, SigningMethodHS256>>,
      <<N_HS512, SigningMethodHS512>> }

\* "" and "a.b"
SigningInputs == { <<>>, <<97, 46, 98>> }

\* the signing string of a token whose header names the algorithm a
ForgedSigningString(a, claims) ==
    Join(<< EncodeSegment(MarshalHeader((K_typ :> Str(V_JWT)) @@ (K_alg :> Str(a)))),
            EncodeSegment(JsonMarshal(claims)) >>, DOT)

\* ------------------------------------------------------------------------
\* HMAC over the inputs of the model.  The MACs of the messages the actions
\* sign and verify are computed once and looked up; any other is computed
\* where it is asked for.
\* ------------------------------------------------------------------------

\* the signing strings of the tokens the model issues
IssuedSigningStrings(m) ==
    { SigningString(NewWithClaims(in[1], in[2])).val : in \in { i \in IssueInputs : i[1] = m } }
    \cup { SigningString(New(m)).val }

\* <<hash, key, message>>: each issued signing string under its method's
\* hash; those that "HS512" registered anew, or a registered "none", resolve
\* to SHA-256 for; the inputs of the direct calls
HmacInputs ==
    UNION { { <<m.Hash, k.val, s>> : k \in SigningKeys, s \in IssuedSigningStrings(m) } :
              m \in Methods }
    \cup { <<"SHA256", k.val, s>> :
              k \in SigningKeys,
              s \in IssuedSigningStrings(SigningMethodHS512)
                     \cup { ForgedSigningString(N_none, c) :
                               c \in ClaimSets \cup { EmptyMapClaims } } }
    \cup { <<m.Hash, k.val, s>> : m \in Methods, k \in SecretKeys, s \in SigningInputs }

HmacSums == [x \in HmacInputs |-> Hmac(x[1], x[2], x[3])] @@ <<>>

\* hmac.New(h, key); Write(msg); Sum(nil)
HmacSum(h, keyBytes, msg) ==
    IF <<h, keyBytes, msg>> \in DOMAIN HmacSums THEN HmacSums[<<h, keyBytes, msg>>]
    ELSE Hmac(h, keyBytes, msg)

\* hmac.Equal
HmacEqual(mac1, mac2) == ConstantTimeCompare(mac1, mac2) = 1

\* variant: the hash availability tested before the signature is decoded
Verify_hashFirst(m, signingString, signature, k) ==
    LET sig == DecodeSegment(signature)
    IN  IF k.type # "bytes" THEN ErrInvalidKeyType
        ELSE IF ~Available(m.Hash) THEN ErrHashUnavailable
        ELSE IF ~sig.ok THEN DecodeError(sig)
        ELSE IF ~HmacEqual(sig.bytes, HmacSum(m.Hash, k.val, signingString))
        THEN ErrSignatureInvalid
        ELSE NoError

\* SigningMethodHMAC.Verify: the error it returns (NoError for nil).
\* A key is [type, val]; only type "bytes" is a []byte.
Verify(m, signingString, signature, k) ==
    LET sig == DecodeSegment(signature)
    IN  IF k.type # "bytes" THEN ErrInvalidKeyType
        ELSE IF ~sig.ok THEN DecodeError(sig)
        ELSE IF ~Available(m.Hash) THEN ErrHashUnavailable
        ELSE IF ~HmacEqual(sig.bytes, HmacSum(m.Hash, k.val, signingString))
        THEN ErrSignatureInvalid
        ELSE NoError

\* SigningMethodHMAC.Sign: [val, err]
Sign(m, signingString, k) ==
    IF k.type = "bytes" THEN
        IF ~Available(m.Hash) THEN [val |-> <<>>, err |-> ErrHashUnavailable]
        ELSE [val |-> EncodeSegment(HmacSum(m.Hash, k.val, signingString)),
              err |-> NoError]
    ELSE [val |-> <<>>, err |-> ErrInvalidKeyType]

\* RegisterSigningMethod: the factory stored under alg, replacing any other
RegisterSigningMethod(reg, alg, m) == (alg :> m) @@ reg

\* GetSigningMethod: the method registered under alg, or nil
GetSigningMethod(reg, alg) == IF alg \in DOMAIN reg THEN reg[alg] ELSE NilMethod

\* variant: an init() that also registers a method under "none"
init_withNone ==
    RegisterSigningMethod(
        RegisterSigningMethod(
            RegisterSigningMethod(
                RegisterSigningMethod(<<>>, <<110, 111, 110, 101>>, SigningMethodHS256),
                Alg(SigningMethodHS256), SigningMethodHS256),
            Alg(SigningMethodHS384), SigningMethodHS384),
        Alg(SigningMethodHS512), SigningMethodHS512)

\* the registry after the package's init(): the three HMAC methods
init ==
    RegisterSigningMethod(
        RegisterSigningMethod(
            RegisterSigningMethod(<<>>, Alg(SigningMethodHS256), SigningMethodHS256),
            Alg(SigningMethodHS384), SigningMethodHS384),
        Alg(SigningMethodHS512), SigningMethodHS512)

\* ------------------------------------------------------------------------
\* Token (token.go): signing
\* ------------------------------------------------------------------------

\* SignedString once the signature is made: "sstr.sig", or Sign's error
JoinSignature(sstr, sig) ==
    IF sig.err # NoError THEN [val |-> <<>>, err |-> sig.err]
    ELSE [val |-> Join(<<sstr, sig.val>>, DOT), err |-> NoError]

\* SignedString once the signing string is made
SignWith(t, sstr, k) ==
    IF sstr.err # NoError THEN [val |-> <<>>, err |-> sstr.err]
    ELSE JoinSignature(sstr.val, Sign(t.Method, sstr.val, k))

\* Token.SignedString: [val, err]
SignedString(t, k) == SignWith(t, SigningString(t), k)

\* ------------------------------------------------------------------------
\* Inputs drawn by the model
\* ------------------------------------------------------------------------

\* the clock does not run past MaxNow
MaxNow == 2

\* the instants TimeFunc is set to return
ClockValues == 0..MaxNow

\* which hash functions the binary links in
LinkConfigs == { Hashes, {"SHA256"} }

\* what the key callback may return, [key, err]: the keys tokens are signed
\* with, or an error
KeyFuncs ==
    { [key |-> k, err |-> NoError] : k \in SigningKeys }
    \cup { [key |-> NilKey, err |-> ErrInvalidKey] }

\* s with the byte at position p replaced by c
ReplaceAt(s, p, c) == [s EXCEPT ![p] = c]

\* the positions of a signature segment the model changes: first, middle, last
TamperPositions(sig) == { 1, (Len(sig) + 1) \div 2, Len(sig) }

\* the bytes put in place of the alphabet character c: c with the lowest, and
\* with the highest, of its six bits flipped; '=', '!' and a line feed
TamperBytes(c) ==
    { EncodeChar(BitXor(DecodeChar(c), 1)), EncodeChar(BitXor(DecodeChar(c), 32)),
      PAD, 33, LF }

\* the token strings that differ from str in one byte of the signature segment
Tampered(str) ==
    LET ps == Split(str, DOT)
    IN  UNION { { Join(<<ps[1], ps[2], ReplaceAt(ps[3], p, c)>>, DOT) :
                    c \in TamperBytes(ps[3][p]) } : p \in TamperPositions(ps[3]) }

\* token strings under another algorithm name: the claims of an issued token
\* under a header with alg replaced, unsigned or carrying the issued signature
Forged(str, claims) ==
    { Join(<<ForgedSigningString(a, claims), sig>>, DOT) :
        a \in UnsafeAlgs, sig \in {<<>>, Split(str, DOT)[3]} }

\* strings that do not hold exactly two '.'
WrongSegmentCount(str) ==
    LET ps == Split(str, DOT)
    IN  { <<>>, ps[1], Join(<<ps[1], ps[2]>>, DOT), str \o <<DOT>>,
          str \o <<DOT>> \o ps[3] }

\* three-segment strings whose header or claims segment does not decode:
\* not base64url, not JSON, a header without alg, claims of the wrong type
Undecodable(str) ==
    LET ps == Split(str, DOT)
    IN  { Join(<< <<33>>, ps[2], ps[3] >>, DOT),
          Join(<< EncodeSegment(V_JWT), ps[2], ps[3] >>, DOT),
          Join(<< EncodeSegment(<<123, 125>>), ps[2], ps[3] >>, DOT),
          Join(<< ps[1], <<33>>, ps[3] >>, DOT),
          Join(<< ps[1], EncodeSegment(MarshalObject(<< Member(K_exp, MarshalString(V_JWT)) >>)),
                  ps[3] >>, DOT) }

\* ------------------------------------------------------------------------
\* Initial state
\* ------------------------------------------------------------------------

ZeroToken ==
    [Raw |-> <<>>, Method |-> NilMethod, Header |-> <<>>, Claims |-> ZeroClaims,
     Signature |-> <<>>, Valid |-> FALSE]

NotIssued ==
    [done |-> FALSE, method |-> NilMethod, key |-> NilKey, claims |-> ZeroClaims,
     val |-> <<>>, err |-> NoError]

NoKeyFunc == [key |-> NilKey, err |-> NoError]
NoResult == [token |-> ZeroToken, err |-> NoError]
NoCall == [fn |-> "none"]

\* the parser's variables before a Parse call
ParserIdle ==
    /\ pc' = "Idle"
    /\ tokenString' = <<>>
    /\ keyFunc' = NoKeyFunc
    /\ parts' = <<>>
    /\ token' = ZeroToken
    /\ key' = NilKey
    /\ vErr' = NewError
    /\ result' = NoResult
    /\ ran' = {}
    /\ verifyErr' = NoError
    /\ claimsErr' = NoError
    /\ clockRead' = 0

Init ==
    /\ now = 1
    /\ linked \in LinkConfigs
    /\ signingMethods = init
    /\ issued = NotIssued
    /\ pc = "Idle"
    /\ tokenString = <<>>
    /\ keyFunc = NoKeyFunc
    /\ parts = <<>>
    /\ token = ZeroToken
    /\ key = NilKey
    /\ vErr = NewError
    /\ result = NoResult
    /\ ran = {}
    /\ verifyErr = NoError
    /\ claimsErr = NoError
    /\ clockRead = 0
    /\ call = NoCall

parserVars == << pc, tokenString, keyFunc, parts, token, key, vErr, result, ran,
                 verifyErr, claimsErr, clockRead >>

\* ------------------------------------------------------------------------
\* Issuing
\* ------------------------------------------------------------------------

\* time passes
Tick ==
    /\ now < MaxNow
    /\ now' = now + 1
    /\ UNCHANGED << linked, signingMethods, issued, parserVars, call >>

\* TimeFunc = func() time.Time { return time.Unix(t, 0) }, between calls
SetTimeFunc(t) ==
    /\ pc = "Idle"
    /\ now' = t
    /\ UNCHANGED << linked, signingMethods, issued, parserVars, call >>

\* RegisterSigningMethod(alg, func() SigningMethod { return m }), between calls
Register(alg, m) ==
    /\ pc = "Idle"
    /\ call = NoCall
    /\ signingMethods' = RegisterSigningMethod(signingMethods, alg, m)
    /\ UNCHANGED << now, linked, issued, parserVars, call >>

\* NewWithClaims(m, c).SignedString(k)
Issued(m, k, c, r) ==
    [done |-> TRUE, method |-> m, key |-> k, claims |-> c, val |-> r.val, err |-> r.err]

Issue(m, k, c) ==
    /\ pc = "Idle"
    /\ ~issued.done
    /\ call = NoCall
    /\ issued' = Issued(m, k, c, SignedString(NewWithClaims(m, c), k))
    /\ UNCHANGED << now, linked, signingMethods, parserVars, call >>

\* New(m).SignedString(k)
IssueNew(m, k) ==
    /\ pc = "Idle"
    /\ ~issued.done
    /\ call = NoCall
    /\ issued' = Issued(m, k, EmptyMapClaims, SignedString(New(m), k))
    /\ UNCHANGED << now, linked, signingMethods, parserVars, call >>

\* the program lets go of the token it issued
Discard ==
    /\ pc = "Idle"
    /\ issued.done
    /\ issued' = NotIssued
    /\ UNCHANGED << now, linked, signingMethods, parserVars, call >>

\* ------------------------------------------------------------------------
\* Direct calls of the claim checks and of the signing methods
\* ------------------------------------------------------------------------

\* claim values and comparison instants range over -1..MaxTime
MaxTime == 3
TimeValues == -1..MaxTime

\* "", "a", "b", "ab", "a\x00"
IdValues == { <<>>, <<97>>, <<98>>, <<97, 98>>, <<97, 0>> }

AnyKeys == SecretKeys \cup { StringKey(<<107>>), NilKey }

\* signature texts: MACs made with any method, input and key (wherever they
\* were made), one of them with its last character changed, and two texts
\* that are not base64url
SignatureTexts ==
    { EncodeSegment(HmacSum(m.Hash, k.val, s)) :
        m \in Methods, s \in SigningInputs, k \in SecretKeys }
    \cup { ReplaceAt(sig, Len(sig), EncodeChar(BitXor(DecodeChar(sig[Len(sig)]), 1))) :
             sig \in { EncodeSegment(HmacSum(m.Hash, <<107>>, <<>>)) : m \in Methods } }
    \cup { <<33>>, <<65>> }

\* a direct call is made while no token is held and no call's result is
NoCalls == pc = "Idle" /\ ~issued.done /\ call = NoCall

\* c.VerifyExpiresAt / VerifyIssuedAt / VerifyNotBefore (cmp, req) on a claim
\* set whose exp, iat and nbf are v
CallTemporal(f, v, cmp, req) ==
    /\ NoCalls
    /\ LET c == [ZeroClaims EXCEPT !.ExpiresAt = v, !.IssuedAt = v, !.NotBefore = v]
       IN  call' = [fn |-> f, claim |-> v, cmp |-> cmp, required |-> req,
                    ok |-> IF f = "VerifyExpiresAt" THEN VerifyExpiresAt(c, cmp, req)
                           ELSE IF f = "VerifyIssuedAt" THEN VerifyIssuedAt(c, cmp, req)
                           ELSE VerifyNotBefore(c, cmp, req)]
    /\ UNCHANGED << now, linked, signingMethods, issued, parserVars >>

\* c.VerifyAudience / VerifyIssuer (cmp, req) on a claim set whose aud and iss are v
CallIdentity(f, v, cmp, req) ==
    /\ NoCalls
    /\ LET c == [ZeroClaims EXCEPT !.Audience = v, !.Issuer = v]
       IN  call' = [fn |-> f, claim |-> v, cmp |-> cmp, required |-> req,
                    ok |-> IF f = "VerifyAudience" THEN VerifyAudience(c, cmp, req)
                           ELSE VerifyIssuer(c, cmp, req)]
    /\ UNCHANGED << now, linked, signingMethods, issued, parserVars >>

\* c.Valid() with TimeFunc overridden to return t
CallValid(exp, iat, nbf, t) ==
    /\ NoCalls
    /\ LET c == [ZeroClaims EXCEPT !.ExpiresAt = exp, !.IssuedAt = iat, !.NotBefore = nbf]
       IN  call' = [fn |-> "Valid", claims |-> c, t |-> t,
                    err |-> StandardClaimsValid(c, t)]
    /\ UNCHANGED << now, linked, signingMethods, issued, parserVars >>

\* the record of a call of Sign that returned r
SignCall(m, s, k, r) ==
    [fn |-> "Sign", method |-> m, signingString |-> s, key |-> k,
     val |-> r.val, err |-> r.err]

\* m.Sign(s, k)
CallSign(m, s, k) ==
    /\ NoCalls
    /\ call' = SignCall(m, s, k, Sign(m, s, k))
    /\ UNCHANGED << now, linked, signingMethods, issued, parserVars >>

\* m.Verify(s, sig, k)
CallVerify(m, s, sig, k) ==
    /\ NoCalls
    /\ call' = [fn |-> "Verify", method |-> m, signingString |-> s,
                signature |-> sig, key |-> k, err |-> Verify(m, s, sig, k)]
    /\ UNCHANGED << now, linked, signingMethods, issued, parserVars >>

\* the caller is done with the result of a direct call
CallReturn ==
    /\ call # NoCall
    /\ call' = NoCall
    /\ UNCHANGED << now, linked, signingMethods, issued, parserVars >>

\* ------------------------------------------------------------------------
\* Parser: Split -> DecodeHeader -> DecodeClaims -> ResolveMethod ->
\* ResolveKey -> VerifySignature -> ValidateClaims -> Finish -> Done
\* ------------------------------------------------------------------------

\* the <<token string, key callback>> pairs Parse is called with once a token
\* has been issued: the token itself under every callback; changed, forged,
\* mis-split and undecodable strings under the callback returning the signing key
ParseInputs ==
    LET same == [key |-> issued.key, err |-> NoError]
    IN  IF issued.done /\ issued.err = NoError
        THEN ({issued.val} \X KeyFuncs)
             \cup ((Tampered(issued.val) \cup Forged(issued.val, issued.claims)
                    \cup WrongSegmentCount(issued.val) \cup Undecodable(issued.val))
                   \X {same})
        ELSE {}

\* Parse(str, kf) is called
ParseBegin(str, kf) ==
    /\ pc = "Idle"
    /\ pc' = "Split"
    /\ tokenString' = str
    /\ keyFunc' = kf
    /\ UNCHANGED << now, linked, signingMethods, issued, parts, token, key, vErr,
                    result, ran, verifyErr, claimsErr, clockRead, call >>

\* Parse returns the token with error e, no further stage running
Terminate(tok, e) ==
    /\ token' = tok
    /\ result' = [token |-> tok, err |-> e]
    /\ pc' = "Done"

\* 1. split on '.'; anything but three parts is Malformed
StageSplit ==
    /\ pc = "Split"
    /\ ran' = ran \cup {"Split"}
    /\ parts' = Split(tokenString, DOT)
    /\ IF Len(parts') # 3
       THEN Terminate([token EXCEPT !.Raw = tokenString],
                NewValidationError("token contains an invalid number of segments",
                                   ValidationErrorMalformed))
       ELSE /\ token' = [token EXCEPT !.Raw = tokenString]
            /\ pc' = "DecodeHeader"
            /\ UNCHANGED result
    /\ UNCHANGED << now, linked, signingMethods, issued, tokenString, keyFunc, key,
                    vErr, verifyErr, claimsErr, clockRead, call >>

\* an error e from a dependency, reported under the bits flags
Wrap(e, flags) == [kind |-> "ValidationError", Inner |-> e, Errors |-> flags, text |-> ""]

\* the header map in the decoded segment seg
HeaderOf(seg) == IF seg.ok THEN UnmarshalMap(seg.bytes) ELSE seg

\* the header was decoded as hdr: go on with it, or end
HeaderDecoded(hdr) ==
    IF ~hdr.ok
    THEN Terminate(token, Wrap(DecodeError(hdr), ValidationErrorMalformed))
    ELSE /\ token' = [token EXCEPT !.Header = hdr.map]
         /\ pc' = "DecodeClaims"
         /\ UNCHANGED result

\* 2. segment 0 -> header map; a decode failure is Malformed
StageDecodeHeader ==
    /\ pc = "DecodeHeader"
    /\ ran' = ran \cup {"DecodeHeader"}
    /\ HeaderDecoded(HeaderOf(DecodeSegment(parts[1])))
    /\ UNCHANGED << now, linked, signingMethods, issued, tokenString, keyFunc, parts,
                    key, vErr, verifyErr, claimsErr, clockRead, call >>

\* the claims in the decoded segment seg
ClaimsIn(seg) == IF seg.ok THEN UnmarshalClaims(seg.bytes) ELSE seg

\* the claims were decoded as cl: go on with them, or end
ClaimsDecoded(cl) ==
    IF ~cl.ok
    THEN Terminate(token, Wrap(DecodeError(cl), ValidationErrorMalformed))
    ELSE /\ token' = [token EXCEPT !.Claims = cl.claims]
         /\ pc' = "ResolveMethod"
         /\ UNCHANGED result

\* 3. segment 1 -> claims; a decode failure is Malformed
StageDecodeClaims ==
    /\ pc = "DecodeClaims"
    /\ ran' = ran \cup {"DecodeClaims"}
    /\ ClaimsDecoded(ClaimsIn(DecodeSegment(parts[2])))
    /\ UNCHANGED << now, linked, signingMethods, issued, tokenString, keyFunc, parts,
                    key, vErr, verifyErr, claimsErr, clockRead, call >>

\* the header's alg when it is a string, else the empty name
HeaderAlg(h) ==
    IF K_alg \in DOMAIN h /\ h[K_alg].kind = "string" THEN h[K_alg].val ELSE <<>>

\* 4. alg -> registry; no method is Unverifiable
StageResolveMethod ==
    /\ pc = "ResolveMethod"
    /\ ran' = ran \cup {"ResolveMethod"}
    /\ LET m == GetSigningMethod(signingMethods, HeaderAlg(token.Header))
       IN  IF m = NilMethod
           THEN Terminate(token,
                    NewValidationError("signing method (alg) is unavailable.",
                                       ValidationErrorUnverifiable))
           ELSE /\ token' = [token EXCEPT !.Method = m]
                /\ pc' = "ResolveKey"
                /\ UNCHANGED result
    /\ UNCHANGED << now, linked, signingMethods, issued, tokenString, keyFunc, parts,
                    key, vErr, verifyErr, claimsErr, clockRead, call >>

\* 5. the key callback; its failure is Unverifiable
StageResolveKey ==
    /\ pc = "ResolveKey"
    /\ ran' = ran \cup {"ResolveKey"}
    /\ IF keyFunc.err # NoError
       THEN /\ Terminate(token, Wrap(keyFunc.err, ValidationErrorUnverifiable))
            /\ UNCHANGED key
       ELSE /\ key' = keyFunc.key
            /\ pc' = "VerifySignature"
            /\ UNCHANGED << token, result >>
    /\ UNCHANGED << now, linked, signingMethods, issued, tokenString, keyFunc, parts,
                    vErr, verifyErr, claimsErr, clockRead, call >>

\* 6. verify segment 2 over "segment0.segment1"; a failure sets
\* SignatureInvalid and parsing goes on
StageVerifySignature ==
    /\ pc = "VerifySignature"
    /\ ran' = ran \cup {"VerifySignature"}
    /\ token' = [token EXCEPT !.Signature = parts[3]]
    /\ verifyErr' = Verify(token.Method, Join(<<parts[1], parts[2]>>, DOT), parts[3], key)
    /\ vErr' = IF verifyErr' # NoError
               THEN [vErr EXCEPT !.Inner = verifyErr',
                                 !.Errors = BitOr(@, ValidationErrorSignatureInvalid)]
               ELSE vErr
    /\ pc' = "ValidateClaims"
    /\ UNCHANGED << now, linked, signingMethods, issued, tokenString, keyFunc, parts,
                    key, result, claimsErr, clockRead, call >>

\* 7. Claims.Valid(); its bits, and its cause if any, go into the aggregate
StageValidateClaims ==
    /\ pc = "ValidateClaims"
    /\ ran' = ran \cup {"ValidateClaims"}
    /\ clockRead' = now
    /\ claimsErr' = StandardClaimsValid(token.Claims, clockRead')
    /\ vErr' = IF claimsErr' # NoError
               THEN [vErr EXCEPT
                       !.Inner = IF claimsErr'.Inner # NoError THEN claimsErr'.Inner ELSE @,
                       !.Errors = BitOr(@, claimsErr'.Errors)]
               ELSE vErr
    /\ pc' = "Finish"
    /\ UNCHANGED << now, linked, signingMethods, issued, tokenString, keyFunc, parts,
                    token, key, result, verifyErr, call >>

\* 8. valid iff no bit is set; the token is returned with the aggregate error
StageFinish ==
    /\ pc = "Finish"
    /\ ran' = ran \cup {"Finish"}
    /\ Terminate([token EXCEPT !.Valid = valid(vErr)],
                 IF valid(vErr) THEN NoError ELSE vErr)
    /\ UNCHANGED << now, linked, signingMethods, issued, tokenString, keyFunc, parts,
                    key, vErr, verifyErr, claimsErr, clockRead, call >>

\* the caller is done with the result
ParseEnd ==
    /\ pc = "Done"
    /\ ParserIdle
    /\ UNCHANGED << now, linked, signingMethods, issued, call >>

Next ==
    \/ Tick
    \/ /\ pc = "Idle"
       /\ \E t \in ClockValues : SetTimeFunc(t)
    \/ /\ pc = "Idle" /\ call = NoCall
       /\ \E r \in Registrations : Register(r[1], r[2])
    \/ /\ NoCalls
       /\ \E in \in IssueInputs, k \in SigningKeys : Issue(in[1], k, in[2])
    \/ /\ NoCalls
       /\ \E m \in Methods, k \in SigningKeys : IssueNew(m, k)
    \/ Discard
    \/ CallReturn
    \/ /\ NoCalls
       /\ \E f \in {"VerifyExpiresAt", "VerifyIssuedAt", "VerifyNotBefore"},
             v \in TimeValues, cmp \in TimeValues, req \in BOOLEAN :
               CallTemporal(f, v, cmp, req)
    \/ /\ NoCalls
       /\ \E f \in {"VerifyAudience", "VerifyIssuer"},
             v \in IdValues, cmp \in IdValues, req \in BOOLEAN :
               CallIdentity(f, v, cmp, req)
    \/ /\ NoCalls
       /\ \E exp \in TimeValues, iat \in TimeValues, nbf \in TimeValues,
             t \in TimeValues :
               CallValid(exp, iat, nbf, t)
    \/ /\ NoCalls
       /\ \E m \in Methods, s \in SigningInputs, k \in AnyKeys : CallSign(m, s, k)
    \/ /\ NoCalls
       /\ \E m \in Methods, s \in SigningInputs, sig \in SignatureTexts, k \in AnyKeys :
               CallVerify(m, s, sig, k)
    \/ /\ pc = "Idle"
       /\ \E in \in ParseInputs : ParseBegin(in[1], in[2])
    \/ StageSplit
    \/ StageDecodeHeader
    \/ StageDecodeClaims
    \/ StageResolveMethod
    \/ StageResolveKey
    \/ StageVerifySignature
    \/ StageValidateClaims
    \/ StageFinish
    \/ ParseEnd

Spec == Init /\ [][Next]_vars

\* ------------------------------------------------------------------------
\* Properties
\* ------------------------------------------------------------------------

\* the bits of a returned error; none for nil
ErrBits(e) == IF e = NoError THEN 0 ELSE e.Errors

Done == pc = "Done"

\* Parse was given the issued token unchanged
Genuine == issued.done /\ issued.err = NoError /\ tokenString = issued.val

\* the key callback returns the key the token was signed with
SameKey == keyFunc = [key |-> issued.key, err |-> NoError]

RECURSIVE ValidFrom(_, _)
ValidFrom(s, i) ==
    IF i > Len(s) THEN TRUE
    ELSE IF RuneSize(s, i) = 0 THEN FALSE
    ELSE ValidFrom(s, i + RuneSize(s, i))

\* utf8.Valid
ValidUTF8(s) == ValidFrom(s, 1)

StringsValidUTF8(c) ==
    /\ ValidUTF8(c.Audience) /\ ValidUTF8(c.Id)
    /\ ValidUTF8(c.Issuer) /\ ValidUTF8(c.Subject)

\* the time claims of c all pass at instant t
TimeClaimsPass(c, t) ==
    /\ c.ExpiresAt = 0 \/ t <= c.ExpiresAt
    /\ c.IssuedAt = 0 \/ t >= c.IssuedAt
    /\ c.NotBefore = 0 \/ t >= c.NotBefore

\* the issued token holds a standard claim set
StandardIssued == ~IsMapClaims(issued.claims)

\* the registry holds the issuing method under its name
Resolves == GetSigningMethod(signingMethods, Alg(issued.method)) = issued.method

RoundTripOK ==
    /\ result.token.Valid
    /\ result.err = NoError
    /\ result.token.Claims = issued.claims

\* C1 as stated: parsing the string SignedString produced, with the callback
\* returning the signing key, yields valid = true, a nil error and claims
\* equal to the originals, for every registered method, key and claim set.
C1_RoundTripAnyClaims ==
    (Done /\ Genuine /\ SameKey /\ Resolves /\ StandardIssued) => RoundTripOK

\* C1 (amended): for every HMAC method the registry holds under its own
\* name and every raw-bytes key, the round trip yields valid = true, a nil
\* error and equal claims for every standard claim set whose exp, iat and
\* nbf pass at the instant Parse reads the clock and whose string claims are
\* valid UTF-8; the token New makes comes back valid, with a nil error and
\* every standard claim unset.
C1_RoundTrip ==
    /\ (Done /\ Genuine /\ SameKey /\ Resolves /\ StandardIssued
              /\ TimeClaimsPass(issued.claims, clockRead)
              /\ StringsValidUTF8(issued.claims))
          => RoundTripOK
    /\ (Done /\ Genuine /\ SameKey /\ Resolves /\ ~StandardIssued)
          => /\ result.token.Valid
             /\ result.err = NoError
             /\ result.token.Claims = ZeroClaims

\* a token with exp and iss set, parsed after a method was registered under "none"
C1_Witness ==
    /\ Done /\ Genuine /\ SameKey /\ Resolves /\ StandardIssued /\ RoundTripOK
    /\ issued.claims.ExpiresAt # 0 /\ issued.claims.Issuer # <<>>
    /\ N_none \in DOMAIN signingMethods

\* Parse was given the issued token with one byte of its signature changed
SignatureTampered ==
    issued.done /\ issued.err = NoError /\ tokenString \in Tampered(issued.val)

\* the key callback returns a key other than the signing key
OtherKey == keyFunc.err = NoError /\ keyFunc.key # issued.key

\* C2: for a validly signed token, Parse yields valid = false with the
\* SignatureInvalid bit set whenever one byte of the signature segment has
\* been changed, and whenever the key callback returns a key different from
\* the signing key.
C2_TamperSensitivity ==
    (Done /\ ((SignatureTampered /\ SameKey) \/ (Genuine /\ OtherKey)))
        => /\ ~result.token.Valid
           /\ Has(ErrBits(result.err), ValidationErrorSignatureInvalid)

\* the stages after method resolution
AfterMethod == {"ResolveKey", "VerifySignature", "ValidateClaims", "Finish"}

\* the registry holds no method under the header's alg (or there is no alg)
AlgUnregistered == HeaderAlg(token.Header) \notin DOMAIN signingMethods

\* what holds of a parse whose header names no registered method: the key
\* callback, signature verification and claims validation have not run, the
\* token is not valid, and method resolution ends Parse with exactly the
\* Unverifiable bit
EndsAtMethodResolution ==
    /\ ran \cap AfterMethod = {}
    /\ key = NilKey /\ verifyErr = NoError /\ claimsErr = NoError
    /\ ~token.Valid
    /\ pc \in {"DecodeClaims", "ResolveMethod", "Done"}
    /\ ("ResolveMethod" \in ran =>
          /\ Done
          /\ ~result.token.Valid
          /\ ErrBits(result.err) = ValidationErrorUnverifiable)

\* C3: the package itself registers no method under "none" or "hs256"; and
\* whenever the header's alg names no method of the registry, whatever the
\* program has registered, the key callback, signature verification and
\* claims validation do not run, the token is not valid, and Parse ends at
\* method resolution with exactly the Unverifiable bit.
C3_AlgorithmConfusion ==
    /\ DOMAIN signingMethods \cap UnsafeAlgs = {}
    /\ []( ("DecodeHeader" \in ran /\ AlgUnregistered) => EndsAtMethodResolution )

\* a token under "none" carrying a signature, "HS512" being registered anew
C3_Witness ==
    /\ Done /\ "ResolveMethod" \in ran
    /\ HeaderAlg(token.Header) = N_none /\ AlgUnregistered
    /\ parts[3] # <<>>
    /\ signingMethods[N_HS512] = SigningMethodHS256

\* the number of '.' in s
DotCount(s) == Cardinality({ i \in 1..Len(s) : s[i] = DOT })

\* C4: for an input that does not hold exactly two '.', Parse fails with
\* exactly the Malformed bit, and no stage after the split runs.
C4_MalformedStructure ==
    ("Split" \in ran /\ DotCount(tokenString) # 2)
        => /\ Done
           /\ ran = {"Split"}
           /\ result.err # NoError
           /\ ErrBits(result.err) = ValidationErrorMalformed
           /\ ~result.token.Valid
           /\ key = NilKey /\ verifyErr = NoError /\ claimsErr = NoError

C4_Witness ==
    /\ Done /\ DotCount(tokenString) = 3
    /\ ErrBits(result.err) = ValidationErrorMalformed

\* the bits the three time checks give for claims c at instant t
TimeBits(c, t) ==
    (IF c.ExpiresAt # 0 /\ t > c.ExpiresAt THEN ValidationErrorExpired ELSE 0)
    + (IF c.IssuedAt # 0 /\ t < c.IssuedAt THEN ValidationErrorIssuedAt ELSE 0)
    + (IF c.NotBefore # 0 /\ t < c.NotBefore THEN ValidationErrorNotValidYet ELSE 0)

\* C5: once the method and the key are resolved, a failed verification does
\* not end Parse: claims validation runs, and the returned bits are
\* SignatureInvalid (set iff Verify returned an error) together with the bits
\* of Claims.Valid().
C5_SignatureFailureContinues ==
    /\ (pc \in {"ValidateClaims", "Finish"}) => "VerifySignature" \in ran
    /\ (Done /\ "ResolveKey" \in ran /\ keyFunc.err = NoError)
         => /\ {"VerifySignature", "ValidateClaims", "Finish"} \subseteq ran
            /\ ErrBits(claimsErr) = TimeBits(token.Claims, clockRead)
            /\ ErrBits(result.err)
                 = (IF verifyErr # NoError THEN ValidationErrorSignatureInvalid ELSE 0)
                   + TimeBits(token.Claims, clockRead)

\* wrongly signed and expired: both bits, and nothing else
C5_Witness ==
    /\ Done /\ verifyErr = ErrSignatureInvalid
    /\ ErrBits(result.err) = ValidationErrorSignatureInvalid + ValidationErrorExpired

\* C6: when Parse ends, the token is valid iff the aggregate holds no bit,
\* and the returned error is nil iff the token is valid; a valid token has
\* had its method and key resolved, its signature verified and its claims
\* validated, none of them setting a bit.
C6_ValidIffNoBits ==
    Done =>
        /\ result.token = token
        /\ result.token.Valid <=> (result.err = NoError)
        /\ result.err # NoError => result.err.Errors # 0
        /\ "Finish" \in ran => (result.token.Valid <=> vErr.Errors = 0)
        /\ result.token.Valid =>
             /\ {"ResolveMethod", "ResolveKey", "VerifySignature", "ValidateClaims"}
                  \subseteq ran
             /\ token.Method # NilMethod
             /\ keyFunc.err = NoError /\ key = keyFunc.key
             /\ verifyErr = NoError
             /\ claimsErr = NoError
             /\ vErr.Errors = 0

C6_Witness ==
    /\ Done /\ ~result.token.Valid /\ "Finish" \in ran
    /\ ErrBits(result.err) = ValidationErrorExpired

\* C7: StandardClaims.Valid() checks exp, iat and nbf with required = false
\* against the clock; its error holds Expired iff the expiration check
\* fails, IssuedAt iff the issued-at check fails, NotValidYet iff the
\* not-before check fails, and no other bit; it is nil iff no check fails.
\* A claim set with all three unset passes at every clock value.
C7_StandardClaimsValid ==
    call.fn = "Valid" =>
        LET c == call.claims
            t == call.t
            expFails == c.ExpiresAt # 0 /\ ~(t <= c.ExpiresAt)
            iatFails == c.IssuedAt # 0 /\ ~(t >= c.IssuedAt)
            nbfFails == c.NotBefore # 0 /\ ~(t >= c.NotBefore)
            bits == ErrBits(call.err)
        IN  /\ Has(bits, ValidationErrorExpired) <=> expFails
            /\ Has(bits, ValidationErrorIssuedAt) <=> iatFails
            /\ Has(bits, ValidationErrorNotValidYet) <=> nbfFails
            /\ bits = (IF expFails THEN ValidationErrorExpired ELSE 0)
                      + (IF iatFails THEN ValidationErrorIssuedAt ELSE 0)
                      + (IF nbfFails THEN ValidationErrorNotValidYet ELSE 0)
            /\ (call.err = NoError) <=> ~(expFails \/ iatFails \/ nbfFails)
            /\ call.err # NoError => call.err.Inner # NoError
            /\ (c.ExpiresAt = 0 /\ c.IssuedAt = 0 /\ c.NotBefore = 0)
                 => call.err = NoError

\* all three checks fail at once
C7_Witness ==
    /\ call.fn = "Valid"
    /\ ErrBits(call.err) = ValidationErrorExpired + ValidationErrorIssuedAt
                             + ValidationErrorNotValidYet

\* C8: each time check: an unset (0) claim is valid iff not required; a set
\* expiration is valid iff comparison <= claim; a set issued-at or
\* not-before is valid iff comparison >= claim.  No skew: exp = now passes,
\* exp = now - 1 fails with Expired.
C8_TemporalChecks ==
    /\ call.fn \in {"VerifyExpiresAt", "VerifyIssuedAt", "VerifyNotBefore"} =>
         /\ call.claim = 0 => (call.ok <=> ~call.required)
         /\ (call.claim # 0 /\ call.fn = "VerifyExpiresAt")
              => (call.ok <=> call.cmp <= call.claim)
         /\ (call.claim # 0 /\ call.fn # "VerifyExpiresAt")
              => (call.ok <=> call.cmp >= call.claim)
    /\ (call.fn = "Valid" /\ call.claims.ExpiresAt # 0) =>
         /\ call.claims.ExpiresAt = call.t
              => ~Has(ErrBits(call.err), ValidationErrorExpired)
         /\ call.claims.ExpiresAt = call.t - 1
              => Has(ErrBits(call.err), ValidationErrorExpired)

\* a set expiration equal to the comparison instant, required or not
C8_Witness ==
    /\ call.fn = "VerifyExpiresAt" /\ call.claim # 0 /\ call.claim = call.cmp
    /\ call.required /\ call.ok

\* C9: each identity check: an unset (empty) claim is valid iff not
\* required; a set claim is valid iff it equals the comparison value,
\* whatever the required flag.
C9_IdentityChecks ==
    call.fn \in {"VerifyAudience", "VerifyIssuer"} =>
        /\ call.claim = <<>> => (call.ok <=> ~call.required)
        /\ call.claim # <<>> => (call.ok <=> call.claim = call.cmp)

\* a set claim that differs from the comparison value and is not required
C9_Witness ==
    /\ call.fn \in {"VerifyAudience", "VerifyIssuer"}
    /\ call.claim # <<>> /\ call.claim # call.cmp /\ ~call.required /\ ~call.ok

\* what Sign and Verify were called with
IsBytes(k) == k.type = "bytes"
CallHashAvailable == call.method.Hash \in linked
CallMac == HmacSum(call.method.Hash, call.key.val, call.signingString)

\* C10 as stated, its cases in the order given: a key that is not raw bytes
\* makes Sign and Verify fail with InvalidKeyType; an unavailable hash makes
\* both fail with HashUnavailable; an undecodable signature makes Verify
\* return the decode error; otherwise Verify succeeds iff the decoded
\* signature equals the MAC, and fails with SignatureInvalid if not.
C10_ErrorsInStatedOrder ==
    /\ call.fn \in {"Sign", "Verify"} =>
         /\ ~IsBytes(call.key) => call.err = ErrInvalidKeyType
         /\ (IsBytes(call.key) /\ ~CallHashAvailable) => call.err = ErrHashUnavailable
    /\ call.fn = "Verify" =>
         LET sig == DecodeSegment(call.signature)
         IN  /\ (IsBytes(call.key) /\ CallHashAvailable /\ ~sig.ok)
                  => call.err = DecodeError(sig)
             /\ (IsBytes(call.key) /\ CallHashAvailable /\ sig.ok)
                  => call.err = IF sig.bytes = CallMac THEN NoError
                                ELSE ErrSignatureInvalid

\* C10 (amended): Sign and Verify report every failure as a returned error.
\* Sign: a key that is not raw bytes gives InvalidKeyType; else an unavailable
\* hash gives HashUnavailable; else it returns the encoded MAC and no error.
\* Verify: a key that is not raw bytes gives InvalidKeyType; else an
\* undecodable signature gives the decode error; else an unavailable hash
\* gives HashUnavailable; else nil iff the decoded signature equals the MAC
\* and SignatureInvalid if not.  Verify(s, Sign(s, k), k) succeeds.
C10_SignVerifyErrors ==
    /\ call.fn = "Sign" =>
         /\ ~IsBytes(call.key) => call.err = ErrInvalidKeyType
         /\ (IsBytes(call.key) /\ ~CallHashAvailable) => call.err = ErrHashUnavailable
         /\ (IsBytes(call.key) /\ CallHashAvailable)
              => /\ call.err = NoError
                 /\ DecodeSegment(call.val) = [ok |-> TRUE, bytes |-> CallMac]
                 /\ Verify(call.method, call.signingString, call.val, call.key) = NoError
         /\ call.err # NoError => call.val = <<>>
    /\ call.fn = "Verify" =>
         LET sig == DecodeSegment(call.signature)
         IN  /\ ~IsBytes(call.key) => call.err = ErrInvalidKeyType
             /\ (IsBytes(call.key) /\ ~sig.ok) => call.err = DecodeError(sig)
             /\ (IsBytes(call.key) /\ sig.ok /\ ~CallHashAvailable)
                  => call.err = ErrHashUnavailable
             /\ (IsBytes(call.key) /\ sig.ok /\ CallHashAvailable)
                  => call.err = IF sig.bytes = CallMac THEN NoError
                                ELSE ErrSignatureInvalid

\* Verify given a signature that is another key's MAC of the same input
C10_Witness ==
    /\ call.fn = "Verify" /\ call.err = ErrSignatureInvalid
    /\ call.signature = EncodeSegment(HmacSum(call.method.Hash, <<115, 51>>,
                                              call.signingString))

====
